---- MODULE Spec2Model ----
(***************************************************************************)
(* A model of src/src/interpreter.py: the tree-walking evaluator           *)
(* (class Interpreter) and the collections.ChainMap it uses as its scope   *)
(* chain.  Expression evaluation is the recursive operator visit, threaded *)
(* through a machine record; statement execution is a state machine whose  *)
(* stack holds the Python frames of execute_Block and visit_WhileStmt.     *)
(***************************************************************************)
EXTENDS Integers, Sequences, FiniteSets, TLC

VARIABLES
    heap,     \* the dict objects alive: dict id -> (name -> value)
    env,      \* self.env: the maps list of the current ChainMap, innermost first
    stack,    \* frames of execute_Block / visit_WhileStmt under interpret, top last
    out,      \* standard output, one entry per line written
    exc,      \* the exception in flight (NoExc when none)
    raised,   \* every exception raised so far, in order, caught or not
    val,      \* value returned by the most recent expression visit of a statement
    trace,    \* expression nodes visited by the most recent statement visit, in order
    status,   \* interpret: "running", "returned", or "crashed" (exception escaped)
    sink,     \* messages handed to ErrorHandler.runtime_error
    stmt,     \* interpret's loop variable: the top-level statement being visited
    count,    \* how many top-level statements interpret has taken from node
    hostNot,  \* what the host's `not NotImplemented` does: "False" or "TypeError"
    family    \* the family of statements the program under interpret is made of

vars == <<heap, env, stack, out, exc, raised, val, trace, status, sink, stmt, count, hostNot, family>>

(***************************************************************************)
(* Bounds of the model.                                                    *)
(***************************************************************************)
MaxStmts == 3      \* top-level statements handed to one interpret call
LoopBound == 2     \* the N of the counting loops `while (a < N)`

(***************************************************************************)
(* Runtime values: Python None, bool, float, str, and the host singleton   *)
(* NotImplemented, which is_equal can return.                              *)
(***************************************************************************)
VNil == [t |-> "nil"]
VBool(b) == [t |-> "bool", v |-> b]
VNum(n) == [t |-> "num", v |-> n]
VStr(s) == [t |-> "str", v |-> s]
VNotImplemented == [t |-> "NotImplemented"]

NoExc == [type |-> "none", msg |-> ""]
RuntimeError(msg) == [type |-> "RuntimeError", msg |-> msg]
HostTypeError == [type |-> "TypeError", msg |-> "NotImplemented should not be used in a boolean context"]

(***************************************************************************)
(* Syntax-tree nodes, as the parser hands them over.  k is the class name. *)
(***************************************************************************)
None == [k |-> "None"]
Literal(v) == [k |-> "Literal", value |-> v]
Grouping(e) == [k |-> "Grouping", value |-> e]
Unary(op, r) == [k |-> "Unary", op |-> op, right |-> r]
Binary(l, op, r) == [k |-> "Binary", left |-> l, op |-> op, right |-> r]
Logical(l, op, r) == [k |-> "Logical", left |-> l, op |-> op, right |-> r]
Variable(n) == [k |-> "Variable", name |-> n]
Assign(n, e) == [k |-> "Assign", name |-> n, value |-> e]
ExprStmt(e) == [k |-> "ExprStmt", value |-> e]
PrintStmt(e) == [k |-> "Print", value |-> e]
VarDeclaration(n, init) == [k |-> "VarDeclaration", name |-> n, initializer |-> init]
IfStmt(t, c, a) == [k |-> "IfStmt", test |-> t, consequence |-> c, alternative |-> a]
WhileStmt(t, b) == [k |-> "WhileStmt", test |-> t, body |-> b]
Block(ss) == [k |-> "Block", statements |-> ss]

(***************************************************************************)
(* collections.ChainMap over the heap of dicts.                            *)
(***************************************************************************)
EmptyDict == [n \in {} |-> VNil]

\* dict.__setitem__
dict_setitem(d, key, value) ==
    [n \in (DOMAIN d) \cup {key} |-> IF n = key THEN value ELSE d[n]]

\* ChainMap.get(key): the first map of the chain holding key, None on a miss.
ChainMap_get(h, maps, key) ==
    LET hit == {i \in 1..Len(maps) : key \in DOMAIN h[maps[i]]}
    IN  IF hit = {} THEN VNil
        ELSE LET i == CHOOSE j \in hit : \A q \in hit : j <= q
             IN  h[maps[i]][key]

\* ChainMap.__setitem__(key, value): always writes maps[0].
ChainMap_setitem(h, maps, key, value) ==
    [h EXCEPT ![maps[1]] = dict_setitem(@, key, value)]

\* the id given to a dict created now: the smallest id not alive
FreshId(h) ==
    CHOOSE i \in 1..(Cardinality(DOMAIN h) + 1) :
        /\ i \notin DOMAIN h
        /\ \A j \in 1..(i - 1) : j \in DOMAIN h

\* ChainMap.new_child(): a new empty dict in front of the same parent dicts.
ChainMap_new_child(h, maps) == <<FreshId(h)>> \o maps

\* the heap with the new child's dict allocated
AllocDict(h) ==
    [i \in (DOMAIN h) \cup {FreshId(h)} |-> IF i \in DOMAIN h THEN h[i] ELSE EmptyDict]

\* reference counting: a dict no ChainMap refers to any more is freed
Referenced(maps, stk) ==
    {maps[i] : i \in 1..Len(maps)}
        \cup UNION {IF stk[j].f = "block"
                    THEN {stk[j].previous[i] : i \in 1..Len(stk[j].previous)}
                    ELSE {} : j \in 1..Len(stk)}

Collect(h, maps, stk) ==
    [i \in (DOMAIN h) \cap Referenced(maps, stk) |-> h[i]]

(***************************************************************************)
(* Host operations on values.                                              *)
(***************************************************************************)
isinstance_float(v) == v.t = "num"
isinstance_str(v) == v.t = "str"

\* Interpreter.is_truthy
is_truthy(value) ==
    IF value = VNil THEN FALSE
    ELSE IF value.t = "bool" THEN value.v
    ELSE TRUE

\* a.__eq__(b) of float, bool (int), str and NotImplemented (object)
host_eq(a, b) ==
    CASE a.t = "num" ->
            IF b.t = "num" THEN VBool(a.v = b.v)
            ELSE IF b.t = "bool" THEN VBool(a.v = (IF b.v THEN 1 ELSE 0))
            ELSE VNotImplemented
      [] a.t = "bool" ->
            IF b.t = "bool" THEN VBool(a.v = b.v) ELSE VNotImplemented
      [] a.t = "str" ->
            IF b.t = "str" THEN VBool(a.v = b.v) ELSE VNotImplemented
      [] OTHER ->
            IF a = b THEN VBool(TRUE) ELSE VNotImplemented

\* Interpreter.is_equal
is_equal(a, b) ==
    IF a = VNil /\ b = VNil THEN VBool(TRUE)
    ELSE IF a = VNil THEN VBool(FALSE)
    ELSE host_eq(a, b)

\* decimal digits of a natural number
Digit(d) == CASE d = 0 -> "0" [] d = 1 -> "1" [] d = 2 -> "2" [] d = 3 -> "3"
              [] d = 4 -> "4" [] d = 5 -> "5" [] d = 6 -> "6" [] d = 7 -> "7"
              [] d = 8 -> "8" [] OTHER -> "9"

RECURSIVE Digits(_)
Digits(n) == IF n < 10 THEN Digit(n) ELSE Digits(n \div 10) \o Digit(n % 10)

\* Interpreter.stringify; the floats of the model are integral, so str(value)
\* ends with '.0' and the two characters are cut
stringify(value) ==
    CASE value = VNil -> "nil"
      [] value.t = "num" -> IF value.v < 0 THEN "-" \o Digits(-value.v) ELSE Digits(value.v)
      [] value.t = "bool" -> IF value.v THEN "True" ELSE "False"
      [] value.t = "str" -> value.v
      [] OTHER -> "NotImplemented"

(***************************************************************************)
(* The evaluator.  A machine record m carries the fields the visits read   *)
(* and write: heap, env, stack, out, exc, raised, val, trace.  A visit     *)
(* that raises leaves the exception in m.exc; every caller returns at once *)
(* when it finds one, as the Python frames unwind.                         *)
(***************************************************************************)
Raising(m) == m.exc # NoExc

\* `raise e`
Raise(m, e) == [m EXCEPT !.exc = e, !.raised = Append(@, e.type)]

\* ErrorHandler.error(node, message): signals the runtime failure to interpret
ErrorHandler_error(m, message) == Raise(m, RuntimeError(message))

\* ErrorHandler.runtime_error(error): the error sink takes the report
ErrorHandler_runtime_error(reports, error) == Append(reports, error.msg)

\* Interpreter.check_numeric_operands
check_numeric_operands(m, left, right) ==
    IF isinstance_float(left) /\ isinstance_float(right) THEN m
    ELSE ErrorHandler_error(m, "operands must be numbers")

\* Interpreter.check_numeric_operand
check_numeric_operand(m, value) ==
    IF isinstance_float(value) THEN m
    ELSE ErrorHandler_error(m, "operand must be a number")

\* the host's `not x` of a bool or of NotImplemented
host_not(m, x) ==
    IF x.t = "bool" THEN [m EXCEPT !.val = VBool(~x.v)]
    ELSE IF hostNot = "TypeError" THEN Raise(m, HostTypeError)
    ELSE [m EXCEPT !.val = VBool(FALSE)]

\* left / right of two floats; the quotient is exact for the divisions the
\* model's statements hold (a divisor of 1), a zero divisor raises instead
float_truediv(left, right) == VNum(left.v \div right.v)

RECURSIVE visit(_, _)

\* Interpreter.visit_Literal
visit_Literal(node, m) == [m EXCEPT !.val = node.value]

\* Interpreter.visit_Grouping
visit_Grouping(node, m) == visit(node.value, m)

\* Interpreter.visit_Logical, with the right operand always evaluated
visit_Logical_eager(node, m) ==
    LET l == visit(node.left, m)
        r == IF Raising(l) THEN l ELSE visit(node.right, l)
    IN  IF Raising(r) THEN r
        ELSE IF node.op = "or" THEN (IF is_truthy(l.val) THEN [r EXCEPT !.val = l.val] ELSE r)
        ELSE IF node.op = "and" THEN (IF is_truthy(l.val) THEN r ELSE [r EXCEPT !.val = l.val])
        ELSE [r EXCEPT !.val = VNil]

\* Interpreter.visit_Logical
visit_Logical(node, m) ==
    LET l == visit(node.left, m)
    IN  IF Raising(l) THEN l
        ELSE IF node.op = "or"
             THEN (IF is_truthy(l.val) THEN l ELSE visit(node.right, l))
        ELSE IF node.op = "and"
             THEN (IF is_truthy(l.val) THEN visit(node.right, l) ELSE l)
        ELSE [l EXCEPT !.val = VNil]

\* Interpreter.visit_Unary
visit_Unary(node, m) ==
    LET r == visit(node.right, m)
    IN  IF Raising(r) THEN r
        ELSE IF node.op = "-"
             THEN LET c == check_numeric_operand(r, r.val)
                  IN  IF Raising(c) THEN c ELSE [c EXCEPT !.val = VNum(-r.val.v)]
        ELSE IF node.op = "!"
             THEN [r EXCEPT !.val = VBool(~is_truthy(r.val))]
        ELSE Raise(r, [type |-> "RuntimeError", msg |-> "Bad operator"])

\* Interpreter.visit_Variable
visit_Variable(node, m) == [m EXCEPT !.val = ChainMap_get(m.heap, m.env, node.name)]

\* Interpreter.visit_Binary
visit_Binary(node, m) ==
    LET l == visit(node.left, m)
        r == visit(node.right, l)
        left == l.val
        right == r.val
        c == check_numeric_operands(r, left, right)
    IN  IF Raising(l) THEN l
        ELSE IF Raising(r) THEN r
        ELSE CASE node.op = "-" ->
                    IF Raising(c) THEN c ELSE [c EXCEPT !.val = VNum(left.v - right.v)]
               [] node.op = "/" ->
                    IF Raising(c) THEN c
                    ELSE IF right.v = 0
                         THEN \* ZeroDivisionError, caught on the spot and printed
                              [c EXCEPT !.raised = Append(@, "ZeroDivisionError"),
                                        !.out = Append(@, "ZeroDivisionError: float division by zero"),
                                        !.val = VNil]
                         ELSE [c EXCEPT !.val = float_truediv(left, right)]
               [] node.op = "*" ->
                    IF Raising(c) THEN c ELSE [c EXCEPT !.val = VNum(left.v * right.v)]
               [] node.op = "+" ->
                    IF isinstance_str(left) /\ isinstance_str(right)
                    THEN [r EXCEPT !.val = VStr(left.v \o right.v)]
                    ELSE IF Raising(c) THEN c
                    ELSE [c EXCEPT !.val = VNum(left.v + right.v)]
               [] node.op = ">" ->
                    IF Raising(c) THEN c ELSE [c EXCEPT !.val = VBool(left.v > right.v)]
               [] node.op = ">=" ->
                    IF Raising(c) THEN c ELSE [c EXCEPT !.val = VBool(left.v >= right.v)]
               [] node.op = "<" ->
                    IF Raising(c) THEN c ELSE [c EXCEPT !.val = VBool(left.v < right.v)]
               [] node.op = "<=" ->
                    IF Raising(c) THEN c ELSE [c EXCEPT !.val = VBool(left.v <= right.v)]
               [] node.op = "!=" -> host_not(r, is_equal(left, right))
               [] node.op = "==" -> [r EXCEPT !.val = is_equal(left, right)]
               [] OTHER -> [r EXCEPT !.val = VNil]

\* Interpreter.visit_Assign
visit_Assign(node, m) ==
    LET r == visit(node.value, m)
    IN  IF Raising(r) THEN r
        ELSE [r EXCEPT !.heap = ChainMap_setitem(r.heap, r.env, node.name, r.val)]

\* Interpreter.visit_ExprStmt
visit_ExprStmt(node, m) == visit(node.value, m)

\* Interpreter.visit_IfStmt; the branch is visited in place, the frame of
\* visit_IfStmt itself has nothing left to do once the branch returns
visit_IfStmt(node, m) ==
    LET t == visit(node.test, m)
    IN  IF Raising(t) THEN t
        ELSE IF is_truthy(t.val) THEN visit(node.consequence, t)
        ELSE IF node.alternative # None THEN visit(node.alternative, t)
        ELSE t

\* Interpreter.visit_Print
visit_Print(node, m) ==
    LET r == visit(node.value, m)
    IN  IF Raising(r) THEN r
        ELSE [r EXCEPT !.out = Append(@, stringify(r.val))]

\* Interpreter.visit_VarDeclaration
visit_VarDeclaration(node, m) ==
    LET r == IF node.initializer # None THEN visit(node.initializer, m)
             ELSE [m EXCEPT !.val = VNil]
    IN  IF Raising(r) THEN r
        ELSE [r EXCEPT !.heap = ChainMap_setitem(r.heap, r.env, node.name, r.val)]

\* Interpreter.execute_Block, up to the first statement: previous = self.env,
\* self.env = env.  The frame keeps the statement list, the position in it and
\* previous; entered records the heap at entry, for the claims about what a
\* block leaves behind.
execute_Block(node, newenv, m) ==
    [m EXCEPT !.stack = Append(@, [f |-> "block", stmts |-> node, i |-> 1,
                                   previous |-> m.env, entered |-> m.heap]),
              !.env = newenv]

\* Interpreter.visit_Block, run in the enclosing environment itself
visit_Block_shared(node, m) == execute_Block(node.statements, m.env, m)

\* Interpreter.visit_Block
visit_Block(node, m) ==
    execute_Block(node.statements, ChainMap_new_child(m.heap, m.env),
                  [m EXCEPT !.heap = AllocDict(m.heap)])

\* Interpreter.visit_WhileStmt, up to the first test: the frame of the loop
visit_WhileStmt(node, m) ==
    [m EXCEPT !.stack = Append(@, [f |-> "while", node |-> node])]

\* NodeVisitor.visit: dispatch on the class of the node
visit(node, m) ==
    LET e == [m EXCEPT !.trace = Append(@, node)]
    IN  CASE node.k = "Literal" -> visit_Literal(node, e)
          [] node.k = "Grouping" -> visit_Grouping(node, e)
          [] node.k = "Unary" -> visit_Unary(node, e)
          [] node.k = "Binary" -> visit_Binary(node, e)
          [] node.k = "Logical" -> visit_Logical(node, e)
          [] node.k = "Variable" -> visit_Variable(node, e)
          [] node.k = "Assign" -> visit_Assign(node, e)
          [] node.k = "ExprStmt" -> visit_ExprStmt(node, m)
          [] node.k = "IfStmt" -> visit_IfStmt(node, m)
          [] node.k = "Print" -> visit_Print(node, m)
          [] node.k = "VarDeclaration" -> visit_VarDeclaration(node, m)
          [] node.k = "WhileStmt" -> visit_WhileStmt(node, m)
          [] node.k = "Block" -> visit_Block(node, m)

(***************************************************************************)
(* The programs handed to interpret: sequences of at most MaxStmts         *)
(* statements, all of one family.                                          *)
(***************************************************************************)
Num(n) == Literal(VNum(n))
Str(t) == Literal(VStr(t))
True == Literal(VBool(TRUE))
False == Literal(VBool(FALSE))
Nil == Literal(VNil)

S_DeclX == VarDeclaration("x", Num(1))
S_DeclY == VarDeclaration("y", None)
S_AssignX == ExprStmt(Assign("x", Num(2)))
S_PrintX == PrintStmt(Variable("x"))
S_PrintY == PrintStmt(Variable("y"))
S_BlockAssign == Block(<<ExprStmt(Assign("x", Num(3))), S_PrintX>>)
S_NestedAssign == Block(<<Block(<<ExprStmt(Assign("x", Num(4)))>>), S_PrintX>>)
S_Shadow == Block(<<VarDeclaration("x", Num(5)), ExprStmt(Assign("x", Num(6))), S_PrintX>>)
S_Shadow3 ==
    Block(<<VarDeclaration("x", Num(5)),
            Block(<<VarDeclaration("x", Num(7)), ExprStmt(Assign("x", Num(8))), S_PrintX>>),
            S_PrintX>>)
S_NestedFail ==
    Block(<<Block(<<VarDeclaration("y", Num(1)), PrintStmt(Unary("-", Str("s")))>>),
            S_PrintX>>)

ScopeFamily ==
    {S_DeclX, S_DeclY, S_AssignX, S_PrintX, S_PrintY, S_BlockAssign, S_NestedAssign,
     S_Shadow, S_Shadow3, S_NestedFail}

OneByZero == Binary(Num(1), "/", Num(0))
S_PrintDivZero == PrintStmt(OneByZero)
S_DeclDivZero == VarDeclaration("y", Binary(Variable("x"), "/", Num(0)))
S_AssignDivZero == ExprStmt(Assign("x", OneByZero))
S_PrintDivOne == PrintStmt(Binary(Variable("x"), "/", Num(1)))
S_PrintMinusStr == PrintStmt(Binary(Num(1), "-", Str("s")))
S_PrintConcat == PrintStmt(Binary(Str("s"), "+", Str("t")))
S_PrintPlusStr == PrintStmt(Binary(Num(1), "+", Str("t")))
S_BlockDivZero == Block(<<S_PrintDivZero, PrintStmt(Num(2))>>)
S_BlockNotEqual == Block(<<Block(<<PrintStmt(Binary(Num(1), "!=", Nil))>>), S_PrintX>>)

FailFamily ==
    {S_DeclX, S_PrintX, S_PrintDivZero, S_DeclDivZero, S_AssignDivZero, S_PrintDivOne,
     S_PrintMinusStr, S_PrintConcat, S_PrintPlusStr, S_BlockDivZero, S_BlockNotEqual,
     S_NestedFail}

AssignY(n) == Assign("y", Num(n))
S_DeclY1 == VarDeclaration("y", Num(1))
S_OrTrue == ExprStmt(Logical(True, "or", AssignY(2)))
S_AndFalse == ExprStmt(Logical(False, "and", AssignY(2)))
S_OrNil == PrintStmt(Logical(Nil, "or", AssignY(3)))
S_AndZero == PrintStmt(Logical(Num(0), "and", AssignY(4)))
S_OrVar == PrintStmt(Logical(Variable("y"), "or", AssignY(5)))
S_AndEffect == PrintStmt(Logical(Assign("y", Nil), "and", AssignY(6)))
S_OrEmpty == PrintStmt(Logical(Str(""), "or", AssignY(7)))
S_AndRaise == PrintStmt(Logical(Variable("y"), "and", Unary("-", Str("s"))))
S_IfAnd == IfStmt(Logical(Variable("y"), "and", False), PrintStmt(Str("yes")), None)
S_NotNot == PrintStmt(Unary("!", Unary("!", Grouping(Variable("y")))))

LogicFamily ==
    {S_DeclY1, S_OrTrue, S_AndFalse, S_OrNil, S_AndZero, S_OrVar, S_AndEffect,
     S_OrEmpty, S_AndRaise, S_IfAnd, S_NotNot}

EqValues == {VNil, VBool(TRUE), VBool(FALSE), VNum(0), VNum(1), VStr("s"), VStr("t")}
S_Compare(a, op, b) == PrintStmt(Binary(Literal(a), op, Literal(b)))

EqFamily == {S_Compare(a, op, b) : a \in EqValues, op \in {"==", "!="}, b \in EqValues}

ALessN == Binary(Variable("a"), "<", Num(LoopBound))
IncrA == ExprStmt(Assign("a", Binary(Variable("a"), "+", Num(1))))
S_DeclA == VarDeclaration("a", Num(0))
S_PrintA == PrintStmt(Variable("a"))
S_CountLoop == WhileStmt(ALessN, Block(<<IncrA>>))
S_FlatLoop == WhileStmt(ALessN, IncrA)
\* for (var a = 0; a < N; a = a + 1) {a;} as the parser lowers it
S_ForLoop ==
    Block(<<S_DeclA,
            WhileStmt(ALessN, Block(<<Block(<<ExprStmt(Variable("a"))>>), IncrA>>))>>)
S_IfLess == IfStmt(ALessN, ExprStmt(Assign("a", Num(LoopBound))), S_PrintA)

S_PrintNotNil == PrintStmt(Binary(Variable("a"), "!=", Nil))

LoopFamily ==
    {S_DeclA, S_PrintA, S_CountLoop, S_FlatLoop, S_ForLoop, S_IfLess, S_PrintNotNil}

Families == {"scope", "fail", "logic", "eq", "loop"}

Pool(fam) ==
    CASE fam = "scope" -> ScopeFamily
      [] fam = "fail" -> FailFamily
      [] fam = "logic" -> LogicFamily
      [] fam = "eq" -> EqFamily
      [] OTHER -> LoopFamily

(***************************************************************************)
(* The state machine.                                                      *)
(***************************************************************************)
\* Interpreter.__init__: self.env = ChainMap()
GlobalEnv == <<1>>

Init ==
    /\ heap = [i \in {1} |-> EmptyDict]
    /\ env = GlobalEnv
    /\ stack = <<>>
    /\ out = <<>>
    /\ exc = NoExc
    /\ raised = <<>>
    /\ val = VNil
    /\ trace = <<>>
    /\ status = "running"
    /\ sink = <<>>
    /\ stmt = None
    /\ count = 0
    /\ hostNot \in {"False", "TypeError"}
    /\ family \in Families

\* the machine record of the current state, at the start of a statement visit
M ==
    [heap |-> heap, env |-> env, stack |-> stack, out |-> out, exc |-> exc,
     raised |-> raised, val |-> val, trace |-> <<>>]

\* the machine record r becomes the state; a dict left without a reference goes
Install(r) ==
    \E m \in {r} :
        /\ heap' = Collect(m.heap, m.env, m.stack)
        /\ env' = m.env
        /\ stack' = m.stack
        /\ out' = m.out
        /\ exc' = m.exc
        /\ raised' = m.raised
        /\ val' = m.val
        /\ trace' = m.trace

Top == stack[Len(stack)]
Pop(stk) == SubSeq(stk, 1, Len(stk) - 1)
InBlock == stack # <<>> /\ Top.f = "block"
InWhile == stack # <<>> /\ Top.f = "while"

\* interpret: the for loop takes the next statement of node and visits it
InterpretNext ==
    /\ status = "running" /\ stack = <<>> /\ exc = NoExc
    /\ count < MaxStmts
    /\ \E s \in Pool(family) :
          /\ stmt' = s
          /\ Install(visit(s, M))
    /\ count' = count + 1
    /\ UNCHANGED <<status, sink, hostNot, family>>

\* interpret: node is exhausted, interpret returns
InterpretReturn ==
    /\ status = "running" /\ stack = <<>> /\ exc = NoExc
    /\ status' = "returned"
    /\ UNCHANGED <<heap, env, stack, out, exc, raised, val, trace, sink, stmt, count, hostNot, family>>

\* interpret: except RuntimeError as error
InterpretCatch ==
    /\ status = "running" /\ stack = <<>> /\ exc.type = "RuntimeError"
    /\ sink' = ErrorHandler_runtime_error(sink, exc)
    /\ exc' = NoExc
    /\ status' = "returned"
    /\ UNCHANGED <<heap, env, stack, out, raised, val, trace, stmt, count, hostNot, family>>

\* interpret: an exception that is no RuntimeError leaves interpret uncaught
InterpretEscape ==
    /\ status = "running" /\ stack = <<>> /\ exc.type \notin {"none", "RuntimeError"}
    /\ status' = "crashed"
    /\ UNCHANGED <<heap, env, stack, out, exc, raised, val, trace, sink, stmt, count, hostNot, family>>

\* execute_Block: the for loop visits the next statement of the block
BlockStep ==
    /\ InBlock /\ exc = NoExc /\ Top.i <= Len(Top.stmts)
    /\ Install(visit(Top.stmts[Top.i], [M EXCEPT !.stack[Len(stack)].i = Top.i + 1]))
    /\ UNCHANGED <<status, sink, stmt, count, hostNot, family>>

\* execute_Block whose restore runs on the normal exit only
execute_Block_no_finally(m) ==
    LET top == m.stack[Len(m.stack)]
    IN  IF Raising(m) THEN [m EXCEPT !.stack = Pop(m.stack)]
        ELSE [m EXCEPT !.env = top.previous, !.stack = Pop(m.stack)]

\* execute_Block: finally: self.env = previous
execute_Block_finally(m) ==
    LET top == m.stack[Len(m.stack)]
    IN  [m EXCEPT !.env = top.previous, !.stack = Pop(m.stack)]

\* execute_Block: the block is left, by falling off its end or by an exception
BlockExit ==
    /\ InBlock /\ (exc # NoExc \/ Top.i > Len(Top.stmts))
    /\ Install(execute_Block_finally([M EXCEPT !.trace = trace]))
    /\ UNCHANGED <<status, sink, stmt, count, hostNot, family>>

\* visit_WhileStmt: evaluate the test, visit the body when it is truthy
WhileTest ==
    /\ InWhile /\ exc = NoExc
    /\ \E t \in {visit(Top.node.test, M)} :
          Install(IF Raising(t) THEN t
                  ELSE IF is_truthy(t.val) THEN visit(Top.node.body, t)
                  ELSE [t EXCEPT !.stack = Pop(stack)])
    /\ UNCHANGED <<status, sink, stmt, count, hostNot, family>>

\* visit_WhileStmt: an exception of the test or the body leaves the loop
WhileUnwind ==
    /\ InWhile /\ exc # NoExc
    /\ stack' = Pop(stack)
    /\ UNCHANGED <<heap, env, out, exc, raised, val, trace, status, sink, stmt, count, hostNot, family>>

Next ==
    \/ InterpretNext
    \/ InterpretReturn
    \/ InterpretCatch
    \/ InterpretEscape
    \/ BlockStep
    \/ BlockExit
    \/ WhileTest
    \/ WhileUnwind

Spec == Init /\ [][Next]_vars

\* the steps inside a top-level statement: the frames of blocks and loops
Step == BlockStep \/ BlockExit \/ WhileTest \/ WhileUnwind

\* interpret called on a program of the loop family
InitLoop == Init /\ family = "loop"

\* the loop programs, with a statement under way always taking its next step:
\* the evaluator is a single thread that nothing suspends
FairSpec == InitLoop /\ [][Next]_vars /\ WF_vars(Step)

(***************************************************************************)
(* Vocabulary of the properties.                                           *)
(***************************************************************************)
\* this step visits a statement: the next one of node, or of the block on top
IsVisit ==
    \/ stack = <<>> /\ count' = count + 1
    \/ InBlock /\ exc = NoExc /\ Top.i <= Len(Top.stmts) /\ stack' # stack

\* the statement this step visits
Visited == IF stack = <<>> THEN stmt' ELSE Top.stmts[Top.i]

\* some environment of the chain defines name
Defined(h, maps, name) == \E i \in 1..Len(maps) : name \in DOMAIN h[maps[i]]

\* the statement is `name = <expression>;`
IsAssignStmt(s) == s.k = "ExprStmt" /\ s.value.k = "Assign"

\* this step leaves the block on top of the stack
IsBlockExit == InBlock /\ stack' = Pop(stack)

\* same variant, equal value
SameValue(a, b) == a.t = b.t /\ a = b

\* C1: an Assign to x inside a block that has no x of its own overwrites the
\* nearest enclosing binding of x and adds no binding to the block's own
\* environment.
C1_AssignReachesOutward ==
    [][(/\ IsVisit /\ InBlock
        /\ IsAssignStmt(Visited)
        /\ Visited.value.name \notin DOMAIN heap[env[1]]
        /\ Defined(heap, Tail(env), Visited.value.name))
       => /\ exc' = NoExc
          /\ Visited.value.name \notin DOMAIN heap'[env[1]]
          /\ ChainMap_get(heap', Tail(env), Visited.value.name) = val']_vars

\* C2: assigning to a name no environment of the chain defines fails and
\* leaves every environment as it was; after a declaration the assignment
\* succeeds and a read returns the assigned value.
C2_AssignUndeclaredFails ==
    [][(IsVisit /\ IsAssignStmt(Visited))
       => IF Defined(heap, env, Visited.value.name)
          THEN exc' = NoExc /\ ChainMap_get(heap', env, Visited.value.name) = val'
          ELSE exc'.type = "RuntimeError" /\ heap' = heap]_vars

\* C3: reading a name no environment of the chain defines fails; it yields
\* no value, so nothing is printed.
C3_ReadUndeclaredFails ==
    [][(/\ IsVisit
        /\ Visited.k = "Print" /\ Visited.value.k = "Variable"
        /\ ~Defined(heap, env, Visited.value.name))
       => exc'.type = "RuntimeError" /\ out' = out]_vars

\* the block's statements redeclare name and assign to it afterwards
Shadows(stmts, name) ==
    \E j \in 1..Len(stmts) : \E q \in (j + 1)..Len(stmts) :
        /\ stmts[j].k = "VarDeclaration" /\ stmts[j].name = name
        /\ IsAssignStmt(stmts[q]) /\ stmts[q].value.name = name

\* the statements before position i hold a declaration of name
DeclaredBefore(stmts, i, name) ==
    \E j \in 1..(i - 1) : stmts[j].k = "VarDeclaration" /\ stmts[j].name = name

\* C4: shadowing.  In a block that redeclares x (declared in an outer scope)
\* and then assigns to it, the assignment changes no enclosing environment and
\* a read of x inside the block prints the inner value; when the block exits, a
\* read of x gives the value x had when the block was entered.
C4_ShadowingKeepsOuter ==
    [][/\ (/\ IsVisit /\ InBlock
           /\ IsAssignStmt(Visited)
           /\ DeclaredBefore(Top.stmts, Top.i, Visited.value.name))
          => /\ \A j \in 2..Len(env) : heap'[env[j]] = heap[env[j]]
             /\ heap'[env[1]][Visited.value.name] = val'
       /\ (/\ IsVisit /\ InBlock
           /\ Visited.k = "Print" /\ Visited.value.k = "Variable"
           /\ DeclaredBefore(Top.stmts, Top.i, Visited.value.name))
          => out' = Append(out, stringify(heap[env[1]][Visited.value.name]))
       /\ \A name \in {"x", "y", "a"} :
            (/\ IsBlockExit /\ exc = NoExc
             /\ Shadows(Top.stmts, name)
             /\ Defined(Top.entered, Top.previous, name))
            => ChainMap_get(heap', env', name)
                   = ChainMap_get(Top.entered, Top.previous, name)]_vars

\* C4 happens: after `var x = 1;` the block {var x = 5; x = 6; print x;} has
\* printed 6 and exited, and x reads 1
C4_Witness ==
    /\ stmt = S_Shadow /\ stack = <<>> /\ exc = NoExc
    /\ out # <<>> /\ out[Len(out)] = "6"
    /\ ChainMap_get(heap, env, "x") = VNum(1)

\* C5: every exit of a block, normal or by an exception, puts the cursor
\* back on the environment it pointed to when the block was entered; once
\* interpret is over, the cursor is the global environment.
C5_ScopeRestored ==
    /\ [][IsBlockExit => env' = Top.previous]_vars
    /\ [](status # "running" => (stack = <<>> /\ env = GlobalEnv))
    /\ []((\A j \in 1..Len(stack) : stack[j].f # "block") => env = GlobalEnv)

\* C5 happens: a failure raised two blocks deep has unwound both blocks, was
\* reported, and interpret returned with the cursor on the global environment
C5_Witness ==
    /\ stmt = S_NestedFail /\ status = "returned"
    /\ sink = <<"operand must be a number">>
    /\ env = GlobalEnv

\* C6: a runtime failure raised while a top-level statement runs ends the
\* run: no later top-level statement is taken, and when interpret has returned
\* the failure was reported to the error sink exactly once.
C6_FailureAbortsRun ==
    /\ [][raised # <<>> => count' = count]_vars
    /\ []((status = "returned" /\ raised # <<>>) => Len(sink) = 1)

\* the expression divides a number by the number zero
DividesByZero(e, m) ==
    /\ e.k = "Binary" /\ e.op = "/"
    /\ LET l == visit(e.left, m)
           r == visit(e.right, l)
       IN  /\ ~Raising(l) /\ ~Raising(r)
           /\ isinstance_float(l.val) /\ isinstance_float(r.val)
           /\ r.val.v = 0

\* C7: a division by zero raises one failure and yields no value: a Print of
\* it prints nothing, a VarDeclaration or an Assign of it binds nothing.
C7_DivisionByZeroFails ==
    [][/\ (/\ IsVisit
           /\ Visited.k = "Print"
           /\ DividesByZero(Visited.value, M))
          => exc' # NoExc /\ out' = out /\ Len(raised') = Len(raised) + 1
       /\ (/\ IsVisit
           /\ Visited.k = "VarDeclaration" /\ Visited.initializer # None
           /\ DividesByZero(Visited.initializer, M))
          => exc' # NoExc /\ heap' = heap
       /\ (/\ IsVisit
           /\ IsAssignStmt(Visited)
           /\ DividesByZero(Visited.value.value, M))
          => exc' # NoExc /\ heap' = heap]_vars

\* how often node occurs in the trace
Occurrences(tr, node) == Cardinality({i \in 1..Len(tr) : tr[i] = node})

\* C8: short-circuit.  A statement whose expression is a Logical: when the left
\* operand decides (truthy for `or`, falsy for `and`) the right operand is not
\* visited, the environments are as the left operand left them and the value
\* is the left operand's; otherwise the right operand is visited exactly once,
\* after the left one, and its value is the result.
C8_ShortCircuit ==
    [][(/\ IsVisit
        /\ Visited.k \in {"ExprStmt", "Print"}
        /\ Visited.value.k = "Logical")
       => LET e == Visited.value
              l == visit(e.left, M)
              decided == IF e.op = "or" THEN is_truthy(l.val) ELSE ~is_truthy(l.val)
              r == visit(e.right, l)
          IN  IF Raising(l) THEN exc' = l.exc
              ELSE IF decided
              THEN /\ Occurrences(trace', e.right) = 0
                   /\ heap' = l.heap
                   /\ (e.left.k = "Literal" => heap' = heap)
                   /\ val' = l.val
                   /\ exc' = NoExc
              ELSE /\ Occurrences(trace', e.right) = 1
                   /\ trace' = <<e>> \o l.trace \o SubSeq(r.trace, Len(l.trace) + 1, Len(r.trace))
                   /\ exc' = r.exc
                   /\ (exc' = NoExc => val' = r.val /\ heap' = r.heap)]_vars

\* C8 happens: after `var y = 1;`, `true or (y = 2);` has run, its value is
\* true and y is still 1
C8_Witness ==
    /\ stmt = S_OrTrue /\ count = 2 /\ stack = <<>>
    /\ val = VBool(TRUE)
    /\ "y" \in DOMAIN heap[1] /\ heap[1]["y"] = VNum(1)

\* C9: `a == b` is the Boolean "same variant and equal value", `a != b` its
\* negation, for every pair of Nil, Boolean, Number and String values.
C9_EqualityRule ==
    (family = "eq" /\ stmt # None)
    => LET e == stmt.value
           same == SameValue(e.left.value, e.right.value)
       IN  /\ exc = NoExc
           /\ val = VBool(IF e.op = "==" THEN same ELSE ~same)

\* the counting loop `while (a < N) {a = a + 1;}` is running over a number a
InCountingLoop ==
    /\ stack # <<>> /\ stack[1].f = "while" /\ stack[1].node = S_CountLoop
    /\ ChainMap_get(heap, GlobalEnv, "a").t = "num"

\* the counting loop is over and a has reached the bound
CountingLoopDone ==
    /\ stack = <<>>
    /\ ChainMap_get(heap, GlobalEnv, "a").t = "num"
    /\ ChainMap_get(heap, GlobalEnv, "a").v >= LoopBound

\* C10: a counting loop over a variable of the enclosing scope, whose body is a
\* block that assigns a larger number to it, stops with the variable at or
\* above the bound.
C10_CountingLoopTerminates == InCountingLoop ~> CountingLoopDone
====
